---------------------------- MODULE Spec2Model ----------------------------
(***************************************************************************)
(* Model of jiunbae/detector:                                              *)
(*   src/evaluate.py   compute_iou, compute_overlaps, Evaluator, main      *)
(*   src/ssd/model.py  SSD (eval / train / detect / forward), SSD300       *)
(*                                                                         *)
(* Four state machines share the module:                                   *)
(*   Spec      an Evaluator receiving update() calls                       *)
(*   SpecIoU   direct calls of the static method Evaluator.compute_iou     *)
(*   SpecMain  the evaluation command line, main()                         *)
(*   SpecSSD   construction of an SSD300 and its eval/train/forward calls  *)
(*                                                                         *)
(* Numbers.  Box coordinates are small integers, so every area,            *)
(* intersection and union is exact in float32/float64.  An IoU is kept as  *)
(* the pair <<intersection, union>>; union = 0 is the NaN that 0/0 gives.  *)
(* Scores are kept in tenths (ScoreScale); the scores used, 0.5 and 1.0,   *)
(* and the thresholds they are compared with are exact in binary floating  *)
(* point.  precision, recall and mAP are exact rationals <<num, den>>.     *)
(***************************************************************************)
EXTENDS Integers, Sequences, FiniteSets, TLC

VARIABLES
    \* Evaluator (src/evaluate.py:39-40)
    TP, FP, FN, gt_counts, pd_counts,
    \* summary of the last update() call and number of calls made
    last, nframes,
    \* a direct call of Evaluator.compute_iou: arguments and result
    tar_boxes, src_boxes, matched,
    \* main(): the dataset, the --dest directory, loop position, the report
    testset, dest, index, pc, report,
    \* SSD300: construction (extra / head) and the module's mode
    ssd_pc, num_classes, extras, heads,
    detector, training, calls, output, sources

evalVars == <<TP, FP, FN, gt_counts, pd_counts, last, nframes>>
iouVars  == <<tar_boxes, src_boxes, matched>>
mainVars == <<testset, dest, index, pc, report>>
ssdVars  == <<ssd_pc, num_classes, extras, heads,
              detector, training, calls, output, sources>>
vars     == <<evalVars, iouVars, mainVars, ssdVars>>

---------------------------------------------------------------------------
(* Bounds of the model *)

MaxFrames == 2      \* update() calls made on one Evaluator
MaxBoxes  == 2      \* boxes in each argument of a direct compute_iou call
MaxN      == 2      \* frames of the dataset main() reads
MaxCalls  == 3      \* eval()/train()/forward() calls made on one SSD

---------------------------------------------------------------------------
(* Program constants *)

n_class        == 2     \* main(): Evaluator(n_class=2)
sample_patch   == 11    \* Evaluator.__init__ default
ThresholdNum   == 1     \* threshold = .5 = ThresholdNum / ThresholdDen
ThresholdDen   == 2
ScoreScale     == 10    \* scores are kept in tenths
ScoreOne       == 10    \* np.ones_like(pd_class_ids): score 1.0

Classes == 0 .. (n_class - 1)
Patches == 0 .. (sample_patch - 1)

---------------------------------------------------------------------------
(* Inputs *)

BoxA == <<0, 0, 10, 10>>
BoxB == <<0, 0, 10, 6>>      \* IoU(BoxA, BoxB) = 0.6
BoxC == <<0, 0, 10, 9>>      \* IoU(BoxA, BoxC) = 0.9
BoxD == <<20, 20, 30, 30>>   \* disjoint from the others
BoxZ == <<0, 0, 0, 0>>       \* zero area

SeqsUpTo(S, n) == UNION {[1 .. m -> S] : m \in 0 .. n}

Pd(c, s, b) == [cls |-> c, score |-> s, box |-> b]
Gt(c, b)    == [cls |-> c, box |-> b]

\* The predictions of one frame: (class id, score in tenths, box).
PdLists ==
    { <<>>,
      <<Pd(1, 10, BoxA)>>,
      <<Pd(1, 5, BoxA)>>,
      <<Pd(0, 5, BoxD)>>,
      <<Pd(1, 10, BoxD)>>,
      <<Pd(1, 10, BoxZ)>>,
      <<Pd(1, 10, BoxA), Pd(1, 5, BoxA)>>,
      <<Pd(1, 10, BoxA), Pd(0, 5, BoxD)>> }

\* The ground truths of one frame: (class id, box).
GtLists ==
    { <<>>,
      <<Gt(1, BoxB)>>,
      <<Gt(0, BoxD)>>,
      <<Gt(1, BoxZ)>>,
      <<Gt(1, BoxB), Gt(1, BoxC)>>,
      <<Gt(1, BoxB), Gt(0, BoxD)>>,
      <<Gt(0, BoxC), Gt(1, BoxB)>> }

---------------------------------------------------------------------------
(* Exact rationals <<num, den>>, den > 0, in lowest terms *)

Max(a, b) == IF a >= b THEN a ELSE b
Min(a, b) == IF a <= b THEN a ELSE b
Abs(a)    == IF a < 0 THEN -a ELSE a

RECURSIVE GCD(_, _)
GCD(a, b) == IF b = 0 THEN a ELSE GCD(b, a % b)

Frac(n, d) ==
    LET s == IF d < 0 THEN -1 ELSE 1
        g == GCD(Abs(n), Abs(d))
    IN  <<(s * n) \div g, (s * d) \div g>>
FAdd(x, y) == Frac(x[1] * y[2] + y[1] * x[2], x[2] * y[2])
FSub(x, y) == Frac(x[1] * y[2] - y[1] * x[2], x[2] * y[2])
FMul(x, y) == Frac(x[1] * y[1], x[2] * y[2])
FLe(x, y)  == x[1] * y[2] <= y[1] * x[2]
FZero      == <<0, 1>>
FOne       == <<1, 1>>

---------------------------------------------------------------------------
(* compute_iou, compute_overlaps (src/evaluate.py:12-30) *)

Area(b) == (b[3] - b[1]) * (b[4] - b[2])

\* One element of the vector compute_iou returns: box against boxes[r].
compute_iou(box, other, box_area, other_area) ==
    LET y1 == Max(box[1], other[1])
        y2 == Min(box[3], other[3])
        x1 == Max(box[2], other[2])
        x2 == Min(box[4], other[4])
        intersection == Max(x2 - x1, 0) * Max(y2 - y1, 0)
        union == box_area + other_area - intersection
    IN  <<intersection, union>>

\* overlaps[r][c] = IoU of boxes1[r] and boxes2[c]
compute_overlaps(boxes1, boxes2) ==
    [r \in 1 .. Len(boxes1) |->
        [c \in 1 .. Len(boxes2) |->
            compute_iou(boxes2[c], boxes1[r], Area(boxes2[c]), Area(boxes1[r]))]]

\* float >= threshold; a NaN (0/0) compares false
GeThreshold(q) ==
    /\ q[2] # 0
    /\ q[1] * ThresholdDen >= ThresholdNum * q[2]

\* bool >= threshold, the bool read as 0 or 1
BoolGeThreshold(b) == (IF b THEN 1 ELSE 0) * ThresholdDen >= ThresholdNum

\* numpy argmax of a row of booleans: the first True, index of the first
\* element when there is none
ArgmaxBool(row) ==
    IF \E j \in DOMAIN row : row[j]
    THEN CHOOSE j \in DOMAIN row : row[j] /\ \A h \in DOMAIN row : row[h] => j <= h
    ELSE 1

\* Faulty variant: the thresholded matrix returned without the per-row argmax.
compute_iou_no_argmax(tar, src) ==
    LET ov == compute_overlaps(tar, src)
    IN  [r \in 1 .. Len(tar) |-> [c \in 1 .. Len(src) |-> GeThreshold(ov[r][c])]]

\* Evaluator.compute_iou (src/evaluate.py:80-87), for Len(src) > 0
Evaluator_compute_iou(tar, src) ==
    LET ov   == compute_overlaps(tar, src)
        iou  == [r \in 1 .. Len(tar) |-> [c \in 1 .. Len(src) |-> GeThreshold(ov[r][c])]]
        argm == [r \in 1 .. Len(tar) |-> ArgmaxBool(iou[r])]
        outputs == [r \in 1 .. Len(tar) |->
                      [c \in 1 .. Len(src) |-> (c = argm[r]) /\ iou[r][argm[r]]]]
    IN  [r \in 1 .. Len(tar) |-> [c \in 1 .. Len(src) |-> BoolGeThreshold(outputs[r][c])]]

\* iou.argmax(axis=1) on a matrix with no columns raises ValueError
ArgmaxRaises(tar, src) == Len(tar) > 0 /\ Len(src) = 0


---------------------------------------------------------------------------
(* Evaluator (src/evaluate.py:33-112) *)

Boxes(items) == [i \in 1 .. Len(items) |-> items[i].box]

\* pd_scores[i]; np.ones_like(pd_class_ids) when the scores are absent
PdScore(pd, none, i) == IF none THEN ScoreOne ELSE pd[i].score

\* score >= patch, patch = np.linspace(0, 1, sample_patch)[p]
PatchGe(score, p) == score * (sample_patch - 1) >= p * ScoreScale

\* the rows np.logical_and(pd_class_ids == klass, pd_scores >= patch) selects
pd_mask(pd, none, klass, p) ==
    {i \in 1 .. Len(pd) : pd[i].cls = klass /\ PatchGe(PdScore(pd, none, i), p)}

\* Faulty variant: every ground-truth box counted, whatever its class.
gt_number_any_class(gt, klass) == Len(gt)

\* np.sum(gt_class_ids == klass)
gt_number(gt, klass) == Cardinality({j \in 1 .. Len(gt) : gt[j].cls = klass})

\* (pd_class_ids == klass).sum()
pd_class_number(pd, klass) == Cardinality({i \in 1 .. Len(pd) : pd[i].cls = klass})

\* np.sum(iou[pd_mask][:, gt_class_ids == klass].any(axis=0))
true_positive(iou, mask, gt, klass) ==
    Cardinality({j \in 1 .. Len(gt) : gt[j].cls = klass /\ \E i \in mask : iou[i][j]})

\* Faulty variant: the branch for no selected prediction forgets the false negatives.
FNInc_skip_empty(pd_number, gt_num, tp) ==
    IF pd_number = 0 THEN 0 ELSE gt_num - tp

\* what one (klass, p) iteration adds to TP, FP and FN (lines 70-78)
TPInc(pd_number, gt_num, tp) == IF pd_number = 0 THEN 0 ELSE tp
FPInc(pd_number, gt_num, tp) == IF pd_number = 0 THEN 0 ELSE pd_number - tp
FNInc(pd_number, gt_num, tp) == IF pd_number = 0 THEN gt_num ELSE gt_num - tp

\* The counters are numpy uint32.  The model keeps them as integers and every
\* run stays far below 2^32; a value below zero stands for an increment that
\* would wrap the unsigned counter.
EvaluatorInit ==
    /\ TP = [p \in Patches |-> [k \in Classes |-> 0]]
    /\ FP = [p \in Patches |-> [k \in Classes |-> 0]]
    /\ FN = [p \in Patches |-> [k \in Classes |-> 0]]
    /\ gt_counts = [k \in Classes |-> 0]
    /\ pd_counts = [k \in Classes |-> 0]
    /\ last = [op |-> "init", raised |-> FALSE, npd |-> 0, gt_class_ids |-> <<>>,
               min_inc |-> 0]
    /\ nframes = 0

\* One (klass, p) iteration of the loops of update (lines 66-78): what it
\* adds to TP[p][klass], FP[p][klass] and FN[p][klass].
Increments(pd, none, gt, iou, klass, p) ==
    LET mask      == pd_mask(pd, none, klass, p)
        pd_number == Cardinality(mask)
        gt_num    == gt_number(gt, klass)
        tp        == IF pd_number = 0 THEN 0 ELSE true_positive(iou, mask, gt, klass)
    IN  [tp |-> TPInc(pd_number, gt_num, tp),
         fp |-> FPInc(pd_number, gt_num, tp),
         fn |-> FNInc(pd_number, gt_num, tp)]

\* the smallest amount a call adds to any TP, FP or FN counter
MinIncrement(inc) ==
    CHOOSE m \in {inc[c].tp : c \in DOMAIN inc} \cup {inc[c].fp : c \in DOMAIN inc}
                 \cup {inc[c].fn : c \in DOMAIN inc} :
        \A c \in DOMAIN inc : m <= inc[c].tp /\ m <= inc[c].fp /\ m <= inc[c].fn

\* Evaluator.update (src/evaluate.py:42-78) on one frame.  pd: the predictions
\* (class id, score, box); none: pd_scores is None; gt: the ground truths.
\* iou is computed only when there are predicted boxes (line 57); the call
\* raises before any counter is touched when there is no ground truth.
EvaluatorUpdate(pd, none, gt) ==
    LET summary(r, m) == [op |-> "update", raised |-> r, npd |-> Len(pd),
                          gt_class_ids |-> [j \in 1 .. Len(gt) |-> gt[j].cls],
                          min_inc |-> m]
    IN  IF ArgmaxRaises(Boxes(pd), Boxes(gt))
        THEN /\ UNCHANGED <<TP, FP, FN, gt_counts, pd_counts>>
             /\ last' = summary(TRUE, 0)
        ELSE \E iou \in {IF Len(pd) > 0
                         THEN Evaluator_compute_iou(Boxes(pd), Boxes(gt)) ELSE <<>>} :
             \E inc \in {[c \in Patches \X Classes |->
                            Increments(pd, none, gt, iou, c[2], c[1])]} :
             /\ gt_counts' = [k \in Classes |-> gt_counts[k] + gt_number(gt, k)]
             /\ pd_counts' = [k \in Classes |-> pd_counts[k] + pd_class_number(pd, k)]
             /\ TP' = [p \in Patches |-> [k \in Classes |-> TP[p][k] + inc[<<p, k>>].tp]]
             /\ FP' = [p \in Patches |-> [k \in Classes |-> FP[p][k] + inc[<<p, k>>].fp]]
             /\ FN' = [p \in Patches |-> [k \in Classes |-> FN[p][k] + inc[<<p, k>>].fn]]
             /\ last' = summary(FALSE, MinIncrement(inc))

\* np.nan_to_num(a / (a + b)): 0/0 is NaN and becomes 0
Ratio(a, b) == IF a + b = 0 THEN FZero ELSE Frac(a, a + b)

RECURSIVE SumPrecision(_, _)
SumPrecision(k, p) ==
    IF p < 0 THEN FZero ELSE FAdd(SumPrecision(k, p - 1), Ratio(TP[p][k], FP[p][k]))

RECURSIVE SumRecall(_, _)
SumRecall(k, p) ==
    IF p < 0 THEN FZero ELSE FAdd(SumRecall(k, p - 1), Ratio(TP[p][k], FN[p][k]))

\* Evaluator.precision / recall: .mean(axis=0), one value per class
precision(k) == FMul(SumPrecision(k, sample_patch - 1), <<1, sample_patch>>)
recall(k)    == FMul(SumRecall(k, sample_patch - 1), <<1, sample_patch>>)

\* Evaluator.mAP (src/evaluate.py:99-108).  precision and recall are vectors
\* over the classes, so zip(precision[::-1], recall[::-1]) walks the classes
\* from the last to the first; ap is a vector that every step adds the same
\* scalar to, and prev_recall becomes the scalar recall of the class before.
\* APFrom(j, prev) is the sum of the steps for classes j, j-1, ..., 0.
RECURSIVE APFrom(_, _)
APFrom(j, prev) ==
    IF j < 0 THEN FZero
    ELSE FAdd(FMul(precision(j), FSub(recall(j), prev)), APFrom(j - 1, recall(j)))

mAP(k) == APFrom(n_class - 1, FZero)

---------------------------------------------------------------------------
(* Spec: an Evaluator and the update() calls made on it *)

\* The parts of the state a specification does not use stay at these values.
IouIdle ==
    /\ tar_boxes = <<>> /\ src_boxes = <<>>
    /\ matched = [done |-> FALSE, raised |-> FALSE, out |-> <<>>]
MainIdle ==
    /\ testset = <<>> /\ dest = <<>> /\ index = 0 /\ pc = "idle"
    /\ report = [gt_counts |-> 0, pd_counts |-> 0]
SsdIdle ==
    /\ ssd_pc = "idle" /\ num_classes = 0 /\ extras = <<>>
    /\ heads = [loc |-> <<>>, conf |-> <<>>]
    /\ detector = "None" /\ training = TRUE /\ calls = <<>>
    /\ output = "none" /\ sources = <<>>

Init == EvaluatorInit /\ IouIdle /\ MainIdle /\ SsdIdle

Update ==
    /\ nframes < MaxFrames
    /\ \E pd \in PdLists, none \in BOOLEAN, gt \in GtLists :
          EvaluatorUpdate(pd, none, gt)
    /\ nframes' = nframes + 1
    /\ UNCHANGED <<iouVars, mainVars, ssdVars>>

Next == Update

Spec == Init /\ [][Next]_vars

---------------------------------------------------------------------------
(* Claims about the Evaluator, checked under Spec *)

InUnitRange(x) == FLe(FZero, x) /\ FLe(x, FOne)

CountClass(ids, k) == Cardinality({j \in 1 .. Len(ids) : ids[j] = k})

\* class k is detected perfectly at every threshold index
Perfect(k) == \A p \in Patches : TP[p][k] > 0 /\ FP[p][k] = 0 /\ FN[p][k] = 0

\* C3: a class whose counters show perfect detection at every threshold
\* (TP > 0, FP = 0, FN = 0) has mAP exactly 1, whatever the counters of the
\* other classes are.
C3_PerfectClassHasMAPOne ==
    \A k \in Classes : Perfect(k) => mAP(k) = FOne

\* C4: every amount an update() call adds to a TP, FP or FN counter is
\* non-negative (so the unsigned counters never wrap and never go below
\* zero), and after any sequence of calls the precision and the recall of
\* every class lie in [0, 1].
C4_IncrementsAndRatiosInRange ==
    /\ last.min_inc >= 0
    /\ \A p \in Patches : \A k \in Classes :
          TP[p][k] >= 0 /\ FP[p][k] >= 0 /\ FN[p][k] >= 0
    /\ \A k \in Classes : InUnitRange(precision(k)) /\ InUnitRange(recall(k))

\* C4 witness: a class with true positives, false positives and false
\* negatives at one threshold, and a precision strictly between 0 and 1.
C4_Witness ==
    \E k \in Classes :
        /\ \E p \in Patches : TP[p][k] > 0 /\ FP[p][k] > 0 /\ FN[p][k] > 0
        /\ precision(k) # FZero /\ precision(k) # FOne

\* C5: update() raises no exception, whatever the frame.
C5_UpdateNeverRaises == last.raised = FALSE

\* C7: an update() with zero predictions adds, for every class k and every
\* threshold index p, the number of ground-truth boxes of class k to FN[p][k]
\* and to gt_counts[k], leaves TP, FP and pd_counts unchanged, and does not
\* raise.
C7_ZeroPredictionsAreFalseNegatives ==
    [][ (nframes' = nframes + 1 /\ last'.npd = 0) =>
          /\ ~last'.raised
          /\ \A k \in Classes :
                /\ gt_counts'[k] = gt_counts[k] + CountClass(last'.gt_class_ids, k)
                /\ pd_counts'[k] = pd_counts[k]
                /\ \A p \in Patches :
                      /\ FN'[p][k] = FN[p][k] + CountClass(last'.gt_class_ids, k)
                      /\ TP'[p][k] = TP[p][k]
                      /\ FP'[p][k] = FP[p][k] ]_vars

\* C7 witness: the last call had no prediction and two ground truths of one
\* class, after an earlier call that had found a true positive.
C7_Witness ==
    /\ last.op = "update" /\ last.npd = 0
    /\ \E k \in Classes :
          /\ CountClass(last.gt_class_ids, k) = 2
          /\ FN[0][k] >= 2
          /\ TP[0][k] > 0

\* C10: after any sequence of update() calls, TP[p][k] + FN[p][k] equals
\* gt_counts[k] for every class k and every threshold index p.
C10_GroundTruthConserved ==
    \A k \in Classes : \A p \in Patches : TP[p][k] + FN[p][k] = gt_counts[k]

\* C10 witness: a class whose ground truths are matched at a low threshold
\* and missed at a high one.
C10_Witness ==
    \E k \in Classes :
        /\ gt_counts[k] >= 2
        /\ TP[0][k] > 0
        /\ FN[sample_patch - 1][k] > TP[sample_patch - 1][k]
        /\ TP[sample_patch - 1][k] > 0

---------------------------------------------------------------------------
(* SpecIoU: one direct call of the static method Evaluator.compute_iou *)

AllBoxes == {BoxA, BoxB, BoxC, BoxD, BoxZ}

InitIoU ==
    /\ EvaluatorInit /\ MainIdle /\ SsdIdle
    /\ tar_boxes \in SeqsUpTo(AllBoxes, MaxBoxes)
    /\ src_boxes \in SeqsUpTo(AllBoxes, MaxBoxes)
    /\ matched = [done |-> FALSE, raised |-> FALSE, out |-> <<>>]

ComputeIouCall ==
    /\ ~matched.done
    /\ matched' = IF ArgmaxRaises(tar_boxes, src_boxes)
                  THEN [done |-> TRUE, raised |-> TRUE, out |-> <<>>]
                  ELSE [done |-> TRUE, raised |-> FALSE,
                        out |-> Evaluator_compute_iou(tar_boxes, src_boxes)]
    /\ UNCHANGED <<tar_boxes, src_boxes, evalVars, mainVars, ssdVars>>

NextIoU == ComputeIouCall

SpecIoU == InitIoU /\ [][NextIoU]_vars

\* IoU q1 <= IoU q2, for IoUs that are numbers (union > 0)
IoULe(q1, q2) == q1[1] * q2[2] <= q2[1] * q1[2]

\* C8: in the matrix compute_iou returns, every predicted box has at most
\* one accepted ground truth, and an accepted ground truth is the one with
\* the highest IoU against that prediction (the lowest index on a tie).
C8_AcceptedIsHighestIoU ==
    (matched.done /\ ~matched.raised) =>
        LET ov == compute_overlaps(tar_boxes, src_boxes)
        IN  \A r \in 1 .. Len(tar_boxes) :
              /\ Cardinality({c \in 1 .. Len(src_boxes) : matched.out[r][c]}) <= 1
              /\ \A c \in 1 .. Len(src_boxes) :
                    matched.out[r][c] =>
                       \A h \in 1 .. Len(src_boxes) :
                          ov[r][h][2] # 0 =>
                             /\ IoULe(ov[r][h], ov[r][c])
                             /\ (IoULe(ov[r][c], ov[r][h]) => c <= h)

---------------------------------------------------------------------------
(* SpecMain: the evaluation command line, main() (src/evaluate.py:115-172) *)

\* pull_anno(index): the ground-truth boxes of a frame (main replaces the
\* labels by ones)
MainGt == {<<>>, <<BoxB>>, <<BoxB, BoxC>>}

\* The file of one frame under --dest: absent, unparsable, or a table of
\* detection rows (class id, score, box).  File names sort in frame order.
MainFiles ==
    { [kind |-> "absent", rows |-> <<>>],
      [kind |-> "bad",    rows |-> <<>>],
      [kind |-> "valid",  rows |-> <<Pd(1, 10, BoxA)>>],
      [kind |-> "valid",  rows |-> <<Pd(1, 10, BoxA), Pd(1, 5, BoxD)>>] }

InitMain ==
    /\ EvaluatorInit /\ IouIdle /\ SsdIdle
    /\ \E n \in 0 .. MaxN :
          /\ testset \in [1 .. n -> MainGt]
          /\ dest \in [1 .. n -> MainFiles]
    /\ index = 0
    /\ pc = "loop"
    /\ report = [gt_counts |-> 0, pd_counts |-> 0]

IsPresent(f) == f.kind # "absent"

\* results = sorted(Path(args.dest).glob('*.txt')): the files that exist
Results(d) == SelectSeq(d, IsPresent)

\* pd.read_csv(str(results[index])) raises: IndexError when the list is too
\* short, a parser error when the file does not parse
ReadFails(d, i) ==
    \/ i + 1 > Len(Results(d))
    \/ Results(d)[i + 1].kind = "bad"

\* one iteration of the loop of lines 128-148
MainFrame ==
    /\ pc = "loop"
    /\ index < Len(testset)
    /\ index' = index + 1
    /\ IF ReadFails(dest, index)
       THEN UNCHANGED <<evalVars, pc>>                      \* except: continue
       ELSE IF Len(testset[index + 1]) = 0
       THEN UNCHANGED <<evalVars, pc>>                      \* not boxes.size
       ELSE LET detection == Results(dest)[index + 1].rows
                boxes     == testset[index + 1]
                gts       == [j \in 1 .. Len(boxes) |-> Gt(1, boxes[j])]
            IN  /\ EvaluatorUpdate(detection, FALSE, gts)
                /\ pc' = IF ArgmaxRaises(Boxes(detection), boxes)
                         THEN "raised" ELSE "loop"
                /\ UNCHANGED nframes
    /\ UNCHANGED <<testset, dest, report, iouVars, ssdVars>>

RECURSIVE SumFrom(_, _)
SumFrom(f, k) == IF k >= n_class THEN 0 ELSE f[k] + SumFrom(f, k + 1)

\* lines 150-172: the totals over the classes other than class 0
MainReport ==
    /\ pc = "loop"
    /\ index = Len(testset)
    /\ report' = [gt_counts |-> SumFrom(gt_counts, 1),
                  pd_counts |-> SumFrom(pd_counts, 1)]
    /\ pc' = "done"
    /\ UNCHANGED <<testset, dest, index, evalVars, iouVars, ssdVars>>

NextMain == MainFrame \/ MainReport

SpecMain == InitMain /\ [][NextMain]_vars

RECURSIVE TotalGt(_, _)
TotalGt(ts, i) == IF i = 0 THEN 0 ELSE Len(ts[i]) + TotalGt(ts, i - 1)

\* C1: when the valid result files under --dest belong to frames that have
\* ground truth and the files of the other frames are absent or unparsable,
\* the reported ground-truth total is the number of ground-truth boxes of
\* all the frames of the dataset: a frame without a readable file is scored
\* as a frame with no detection, not dropped.
C1_MissingFileStillCountsGroundTruth ==
    ( /\ pc = "done"
      /\ \A i \in 1 .. Len(testset) :
            dest[i].kind = "valid" => Len(testset[i]) > 0 )
    => report.gt_counts = TotalGt(testset, Len(testset))

---------------------------------------------------------------------------
(* SSD300 (src/ssd/model.py:136-178): the layer lists *)

Conv(i, o, k, st, pad) ==
    [type |-> "Conv2d", in_channels |-> i, out_channels |-> o,
     kernel_size |-> k, stride |-> st, padding |-> pad]
Other(t) ==
    [type |-> t, in_channels |-> 0, out_channels |-> 0,
     kernel_size |-> 0, stride |-> 0, padding |-> 0]

\* torchvision's vgg16 configuration: channel counts, 0 for a max-pool
VggCfg == <<64, 64, 0, 128, 128, 0, 256, 256, 256, 0,
            512, 512, 512, 0, 512, 512, 512, 0>>

\* models.vgg16(...).features: a 3x3 convolution and a ReLU per channel
\* count, a max-pool per 0
RECURSIVE VggFeatures(_, _)
VggFeatures(i, in) ==
    IF i > Len(VggCfg) THEN <<>>
    ELSE IF VggCfg[i] = 0
         THEN <<Other("MaxPool2d")>> \o VggFeatures(i + 1, in)
         ELSE <<Conv(in, VggCfg[i], 3, 1, 1), Other("ReLU")>>
              \o VggFeatures(i + 1, VggCfg[i])

\* the five layers lines 146-152 add
AddedLayers ==
    <<Other("MaxPool2d"), Conv(512, 1024, 3, 1, 6), Other("ReLU"),
      Conv(1024, 1024, 1, 1, 0), Other("ReLU")>>

\* backbone.add_module(str(name), layer): a new name appends, a name the
\* container already has replaces that layer
RECURSIVE AddModules(_, _, _, _)
AddModules(seq, layers, j, name) ==
    IF j > Len(layers) THEN seq
    ELSE AddModules(IF name < Len(seq)
                    THEN [seq EXCEPT ![name + 1] = layers[j]]
                    ELSE Append(seq, layers[j]),
                    layers, j + 1, name + 1)

\* lines 144-153: features[:-1], then the added layers named from 30 on
Backbone ==
    LET features == VggFeatures(1, 3)
    IN  AddModules(SubSeq(features, 1, Len(features) - 1), AddedLayers, 1, 30)

\* the marker 'S' of EXTRAS
S == 0
EXTRAS == <<256, S, 512, 128, S, 256, 128, 256, 128, 256>>
BOXES  == <<4, 6, 6, 6, 4, 4>>

\* Faulty variant: a layer is produced for every entry.
ExtraYieldsAlways(in_ch) == TRUE

\* the guard of line 165
ExtraYields(in_ch) == in_ch # S

\* Faulty variant: the kernel cycle advances at every entry.
AdvanceKernelAlways(yielded, k) == IF k = 1 THEN 3 ELSE 1

\* next(kernel) over cycle((1, 3)) is evaluated only when a layer is produced
AdvanceKernel(yielded, k) == IF yielded THEN (IF k = 1 THEN 3 ELSE 1) ELSE k

\* the layer line 166-167 yields for entry i (0-based)
ExtraConv(i, in_ch, k) ==
    LET feature == EXTRAS[i + 1]
    IN  [entry |-> i] @@
        Conv(in_ch,
             IF feature = S THEN EXTRAS[i + 2] ELSE feature,
             k,
             IF feature = S THEN 2 ELSE 1,
             IF feature = S THEN 1 ELSE 0)

\* SSD300.extra (lines 160-168): the layers produced from entry i on, with
\* in_channels in_ch and k the value next(kernel) would return
RECURSIVE Extra(_, _, _)
Extra(i, in_ch, k) ==
    IF i >= Len(EXTRAS) THEN <<>>
    ELSE (IF ExtraYields(in_ch) THEN <<ExtraConv(i, in_ch, k)>> ELSE <<>>)
         \o Extra(i + 1, EXTRAS[i + 1], AdvanceKernel(ExtraYields(in_ch), k))

\* Python's seq[start::step], indices from 0
RECURSIVE Slice(_, _, _)
Slice(seq, start, step) ==
    IF start >= Len(seq) THEN <<>>
    ELSE <<seq[start + 1]>> \o Slice(seq, start + step, step)

RECURSIVE Zip(_, _)
Zip(a, b) ==
    IF Len(a) = 0 \/ Len(b) = 0 THEN <<>>
    ELSE <<<<Head(a), Head(b)>>>> \o Zip(Tail(a), Tail(b))

\* SSD300.head (lines 170-178): one (loc, conf) pair per (count, layer)
SSDHead(backbone, ex, nc) ==
    LET pairs == Zip(BOXES, Slice(backbone, 21, 12) \o Slice(ex, 1, 2))
    IN  [loc  |-> [n \in 1 .. Len(pairs) |->
                     Conv(pairs[n][2].out_channels, pairs[n][1] * 4, 3, 1, 1)],
         conf |-> [n \in 1 .. Len(pairs) |->
                     Conv(pairs[n][2].out_channels, pairs[n][1] * nc, 3, 1, 1)]]

---------------------------------------------------------------------------
(* SSD (src/ssd/model.py:17-133): mode switching and forward *)

\* torch.nn.Module.train(mode): sets self.training
Module_train(st, mode) == [st EXCEPT !.training = mode]

\* SSD.train (lines 63-65); super().train() is called without the mode
SSD_train(st, mode) == Module_train([st EXCEPT !.detector = "None"], TRUE)

\* torch.nn.Module.eval() is "return self.train(False)", and self.train is
\* SSD.train
Module_eval(st) == SSD_train(st, FALSE)

\* SSD.eval (lines 59-61)
SSD_eval(st) == Module_eval([st EXCEPT !.detector = "Detector"])

\* Faulty variant: every extra layer's output is collected.
IsSourceIndexAny(i) == TRUE

\* line 98
IsSourceIndex(i) == i % 2 = 1

RECURSIVE ExtraSources(_, _)
ExtraSources(ex, i) ==
    IF i >= Len(ex) THEN <<>>
    ELSE (IF IsSourceIndex(i) THEN <<[from |-> "extras", i |-> i]>> ELSE <<>>)
         \o ExtraSources(ex, i + 1)

\* the list forward collects (lines 88-99)
ForwardSources(ex) ==
    <<[from |-> "L2Norm", i |-> 22], [from |-> "features", i |-> Len(Backbone) - 1]>>
    \o ExtraSources(ex, 0)

\* what forward returns (lines 110-119); detect raises without a detector
ForwardOutput(st) ==
    IF st.training THEN "triple"
    ELSE IF st.detector = "None" THEN "exception" ELSE "decoded"

NumClasses == {2, 21, 81}

InitSSD ==
    /\ EvaluatorInit /\ IouIdle /\ MainIdle
    /\ ssd_pc = "new"
    /\ num_classes \in NumClasses
    /\ extras = <<>> /\ heads = [loc |-> <<>>, conf |-> <<>>]
    /\ detector = "None" /\ training = TRUE
    /\ calls = <<>> /\ output = "none" /\ sources = <<>>

\* SSD300.__init__ (lines 143-158) and SSD.__init__ (lines 36-51)
Construct ==
    /\ ssd_pc = "new"
    /\ \E ex \in {Extra(0, Backbone[Len(Backbone) - 1].in_channels, 1)} :
          /\ extras' = ex
          /\ heads' = SSDHead(Backbone, ex, num_classes)
    /\ detector' = "None"
    /\ training' = TRUE
    /\ ssd_pc' = "ready"
    /\ UNCHANGED <<num_classes, calls, output, sources, evalVars, iouVars, mainVars>>

Eval ==
    /\ ssd_pc = "ready" /\ Len(calls) < MaxCalls
    /\ LET st == SSD_eval([detector |-> detector, training |-> training])
       IN  detector' = st.detector /\ training' = st.training
    /\ calls' = Append(calls, "eval")
    /\ UNCHANGED <<ssd_pc, num_classes, extras, heads, output, sources,
                   evalVars, iouVars, mainVars>>

Train ==
    /\ ssd_pc = "ready" /\ Len(calls) < MaxCalls
    /\ \E mode \in BOOLEAN :
          LET st == SSD_train([detector |-> detector, training |-> training], mode)
          IN  detector' = st.detector /\ training' = st.training
    /\ calls' = Append(calls, "train")
    /\ UNCHANGED <<ssd_pc, num_classes, extras, heads, output, sources,
                   evalVars, iouVars, mainVars>>

Forward ==
    /\ ssd_pc = "ready" /\ Len(calls) < MaxCalls
    /\ sources' = ForwardSources(extras)
    /\ output' = ForwardOutput([detector |-> detector, training |-> training])
    /\ calls' = Append(calls, "forward")
    /\ UNCHANGED <<ssd_pc, num_classes, extras, heads, detector, training,
                   evalVars, iouVars, mainVars>>

NextSSD == Construct \/ Eval \/ Train \/ Forward

SpecSSD == InitSSD /\ [][NextSSD]_vars

---------------------------------------------------------------------------
(* Claims about the SSD, checked under SpecSSD *)

ModeCalls == {i \in 1 .. Len(calls) : calls[i] # "forward"}

\* the last eval() or train() call made, "none" before the first
LastModeCall ==
    IF ModeCalls = {} THEN "none"
    ELSE calls[CHOOSE i \in ModeCalls : \A j \in ModeCalls : j <= i]

ForwardCalled == \E i \in 1 .. Len(calls) : calls[i] = "forward"

\* C2: after eval(), whatever calls came before, the model holds a Detector
\* and is in evaluation mode, and a forward() that follows returns the
\* decoder's output; after train() the Detector is absent and a forward()
\* that follows returns the raw (loc, conf, priors) triple.
C2_EvalInstallsDetector ==
    /\ LastModeCall = "eval" =>
          /\ detector = "Detector"
          /\ ~training
          /\ (calls[Len(calls)] = "forward" => output = "decoded")
    /\ LastModeCall = "train" =>
          /\ detector = "None"
          /\ (calls[Len(calls)] = "forward" => output = "triple")

KernelAt(n) == IF n % 2 = 1 THEN 1 ELSE 3

\* the layer attributes the claim gives for the layer made from entry e
\* (0-based): an 'S' entry gives stride 2, padding 1 and the next entry's
\* channel count; any other entry gives stride 1, padding 0 and its own
LayerMatchesEntry(layer, e) ==
    IF EXTRAS[e + 1] = S
    THEN layer.stride = 2 /\ layer.padding = 1 /\ layer.out_channels = EXTRAS[e + 2]
    ELSE layer.stride = 1 /\ layer.padding = 0 /\ layer.out_channels = EXTRAS[e + 1]

\* C6 as stated: SSD300.extra produces one layer per entry of EXTRAS, ten
\* layers with kernel sizes 1,3,1,3,1,3,1,3,1,3; the layer of an 'S' entry
\* has stride 2, padding 1 and the next entry's channels, the layer of any
\* other entry has stride 1 and padding 0.
C6_OneLayerPerEntry ==
    ssd_pc = "ready" =>
        /\ Len(extras) = Len(EXTRAS)
        /\ \A n \in 1 .. Len(extras) :
              /\ extras[n].kernel_size = KernelAt(n)
              /\ LayerMatchesEntry(extras[n], n - 1)

\* the entries that produce a layer: all but those that follow an 'S'
ProducingEntries == {e \in 0 .. Len(EXTRAS) - 1 : e = 0 \/ EXTRAS[e] # S}

\* C6 amended: SSD300.extra produces one layer per entry of EXTRAS except
\* the entry that follows an 'S', which produces none: eight layers, in
\* entry order, with kernel sizes 1,3,1,3,1,3,1,3 over the produced layers;
\* the layer of an 'S' entry has stride 2, padding 1 and the next entry's
\* channels, every other produced layer has stride 1, padding 0 and its own
\* entry's channels.
C6_LayerPerEntryNotAfterS ==
    ssd_pc = "ready" =>
        /\ Len(extras) = 8
        /\ {extras[n].entry : n \in 1 .. Len(extras)} = ProducingEntries
        /\ \A n \in 1 .. Len(extras) - 1 : extras[n].entry < extras[n + 1].entry
        /\ \A n \in 1 .. Len(extras) :
              /\ extras[n].kernel_size = KernelAt(n)
              /\ LayerMatchesEntry(extras[n], extras[n].entry)

\* C6 witness: a constructed model whose extras hold the layer of an 'S'
\* entry and a layer made after a skipped entry.
C6_Witness ==
    /\ ssd_pc = "ready"
    /\ \E n \in 1 .. Len(extras) : extras[n].stride = 2
    /\ \E n \in 1 .. Len(extras) : extras[n].entry > n - 1

\* C9: the list forward collects has six sources, as many as BOXES has
\* entries and as SSD300.head built localization and classification layers.
C9_SixSourcesSixHeads ==
    ForwardCalled =>
        /\ Len(sources) = 6
        /\ Len(sources) = Len(BOXES)
        /\ Len(sources) = Len(heads.loc)
        /\ Len(sources) = Len(heads.conf)

\* C9 witness: forward has run and collected sources from the extra layers.
C9_Witness ==
    /\ ForwardCalled
    /\ \E n \in 1 .. Len(sources) : sources[n].from = "extras"
    /\ Len(heads.loc) > 0

============================================================================
